---- MODULE Spec2Model ----
(***************************************************************************)
(* A model of kopidaz: the encode-buffer allocation strategies             *)
(* (src/src/buffer.rs), the typed tree over a sled partition and the       *)
(* id-generation protocol IdBuilder::generate (src/src/tree.rs).           *)
(*                                                                         *)
(* A task runs on some worker thread between two suspension points; the    *)
(* code between two suspension points is one action.  The only real        *)
(* suspension points of generate are the two hook awaits and yield_now:    *)
(* block_in_place runs its closure on the calling thread, and awaiting     *)
(* contains_key_raw / insert_raw / get_raw / remove_raw never suspends.    *)
(* A suspended task may be resumed on any worker thread.                   *)
(***************************************************************************)
EXTENDS Integers, Sequences, FiniteSets, TLC

\* Bounds of the model.
MaxId == 3        \* generate_id hands out the raw ids 0 .. MaxId-1
MaxBufs == 4      \* at most MaxBufs calls of Buffer::default()
MaxVal == 1       \* typed values are 0 .. MaxVal

Tasks == {"t1", "t2"}
Threads == {"w1", "w2"}
Keys == 0 .. (MaxId - 1)
Vals == 0 .. MaxVal
NoBuf == 0
Strategies == {"OneTime", "Pool", "DefaultPool"}
IdMakers == {"OneToOne", "Any"}
CallerErrors == {"HookErr"}

VARIABLES
    storage,        \* sled::Tree: encoded key -> encoded value (a partial function)
    nextId,         \* sled::Db: the next raw id generate_id returns
    DEFAULT_POOL,   \* thread -> the buffers of its thread-local Pool (a Vec)
    ownPool,        \* task -> the buffers of the Pool it passes as &mut Pool
    heap,           \* buffer id -> Buffer.bytes, for the buffers made so far
    nextBuf,        \* number of buffers made by Buffer::default() so far
    pc,             \* task -> where it is suspended
    cfg,            \* task -> the operation it runs and the builder's slots
    key_buf,        \* task -> the buffer held in key_buf (NoBuf: none)
    val_buf,        \* task -> the buffer held in val_buf (NoBuf: none)
    generated,      \* task -> the raw id of the current attempt
    id,             \* task -> the candidate key of the current attempt
    output,         \* task -> what the operation returned
    trace,          \* task -> the calls the operation made so far, in order
    held,           \* task -> the buffers it got by calling make itself
    called          \* the last call a task made on a strategy itself

vars == <<storage, nextId, DEFAULT_POOL, ownPool, heap, nextBuf, pc, cfg,
          key_buf, val_buf, generated, id, output, trace, held, called>>

----------------------------------------------------------------------------
\* Values

Ev(op, x, y, e) == [op |-> op, x |-> x, y |-> y, e |-> e]
OutNone == [tag |-> "None", key |-> 0, val |-> 0, err |-> ""]
OutOk(k, v) == [tag |-> "Ok", key |-> k, val |-> v, err |-> ""]
OutErr(e) == [tag |-> "Err", key |-> 0, val |-> 0, err |-> e]
NoCfg == [op |-> "none", strat |-> "OneTime", maker |-> "Any"]
NoCall ==
    [op |-> "none", t |-> "t1", strat |-> "OneTime", th |-> "w1", buffer |-> 0]

Range(s) == {s[i] : i \in 1 .. Len(s)}

----------------------------------------------------------------------------
\* lib.rs: the codec.  bincode's default options write an integer below 251
\* as the one byte holding it, and reject trailing or missing bytes.

encode(data) == <<data>>

\* `written` bytes reach the Vec before the serializer stops; the call
\* succeeds when all of them did.
encode_into(data, written) ==
    [bytes |-> SubSeq(encode(data), 1, written),
     ok |-> written = Len(encode(data))]

decode(bytes) ==
    IF Len(bytes) = 1 THEN [ok |-> TRUE, val |-> bytes[1]]
    ELSE [ok |-> FALSE, val |-> 0]

Written(data) == 0 .. Len(encode(data))

----------------------------------------------------------------------------
\* A context c is what one task, running on one thread, can read and write
\* between two suspension points: the shared state and the task's own locals.
\* Each operation of the code is an operator from a context to the context
\* after it, its return value in c.ret.

Ctx(t) ==
    [tls |-> DEFAULT_POOL, own |-> ownPool, next |-> nextBuf, heap |-> heap,
     store |-> storage, nid |-> nextId,
     kb |-> key_buf[t], vb |-> val_buf[t], gen |-> generated[t], id |-> id[t],
     out |-> output[t], tr |-> trace[t], pc |-> pc[t], ret |-> 0]

Log(c, ev) == [c EXCEPT !.tr = Append(@, ev)]

ResOk(v) == [ok |-> TRUE, err |-> "", val |-> v]
ResErr(e) == [ok |-> FALSE, err |-> e, val |-> 0]
None == [some |-> FALSE, v |-> 0]
Some(v) == [some |-> TRUE, v |-> v]

----------------------------------------------------------------------------
\* buffer.rs: Buffer

Buffer_default == <<>>

\* Mutant of Buffer_encode: the bytes are appended to what the buffer held.
Buffer_encode_appends(c, b, data, written) ==
    LET e == encode_into(data, written)
        filled == [c.heap EXCEPT ![b] = c.heap[b] \o e.bytes]
    IN  [c EXCEPT !.heap = filled,
                  !.ret = IF e.ok THEN ResOk(filled[b]) ELSE ResErr("Serde")]

\* Buffer::encode: clear, then encode_into; the view returned is the
\* buffer's bytes.
Buffer_encode(c, b, data, written) ==
    LET cleared == [c.heap EXCEPT ![b] = <<>>]
        e == encode_into(data, written)
        filled == [cleared EXCEPT ![b] = cleared[b] \o e.bytes]
    IN  [c EXCEPT !.heap = filled,
                  !.ret = IF e.ok THEN ResOk(filled[b]) ELSE ResErr("Serde")]

\* Buffer::free: the buffer becomes Buffer::default().
Buffer_free(c, b) == [c EXCEPT !.heap[b] = Buffer_default]

\* A Buffer dropped: its Vec is released.
Buffer_drop(c, b) == [c EXCEPT !.heap[b] = Buffer_default]

\* Buffer::default(): a new buffer, empty.
Buffer_new(c) ==
    [c EXCEPT !.next = @ + 1, !.heap = Append(@, Buffer_default),
              !.ret = c.next + 1]

\* Buffer::clone: Self::default(), whatever the buffer cloned holds.
Buffer_clone(c, b) == Buffer_new(c)

----------------------------------------------------------------------------
\* buffer.rs: the allocation strategies.  A Pool is the sequence of the
\* buffers in its Vec.

Pool_default == <<>>

\* Mutant of OneTime_make: the buffer made last is handed out again.
OneTime_make_cached(c) ==
    IF c.next > 0 THEN [c EXCEPT !.ret = c.next] ELSE Buffer_new(c)

OneTime_make(c) == Buffer_new(c)

OneTime_save(c, buffer) == Buffer_drop(c, buffer)

\* Mutant of Pool_make: the buffer saved first is handed out (a queue).
Pool_make_oldest(c, pool) ==
    IF Len(pool) > 0
    THEN [c |-> [c EXCEPT !.ret = pool[1]], pool |-> Tail(pool)]
    ELSE [c |-> Buffer_new(c), pool |-> pool]

\* Mutant of Pool_make: the last buffer is handed out and stays in the Vec.
Pool_make_keeps(c, pool) ==
    IF Len(pool) > 0
    THEN [c |-> [c EXCEPT !.ret = pool[Len(pool)]], pool |-> pool]
    ELSE [c |-> Buffer_new(c), pool |-> pool]

\* Pool::make on the pool value `pool`: r.pool is the pool after the call.
Pool_make(c, pool) ==
    IF Len(pool) > 0
    THEN [c |-> [c EXCEPT !.ret = pool[Len(pool)]],
          pool |-> SubSeq(pool, 1, Len(pool) - 1)]
    ELSE [c |-> Buffer_new(c), pool |-> pool]

\* Mutant of Pool_save: the buffer is cleared before it is pushed.
Pool_save_clears(c, pool, buffer) ==
    [c |-> [c EXCEPT !.heap[buffer] = <<>>], pool |-> Append(pool, buffer)]

Pool_save(c, pool, buffer) == [c |-> c, pool |-> Append(pool, buffer)]

\* Pool::clone: Self::default(), whatever the pool cloned holds.
Pool_clone(c, pool) == [c |-> c, pool |-> Pool_default]

\* with_default_pool: cell.take() leaves Pool::default() in the cell while
\* the visitor runs on the pool taken out; cell.set stores back the pool
\* the visitor left (r.pool), in the context the visitor left (r.c).
with_default_pool_take(c, th) == [c EXCEPT !.tls[th] = Pool_default]

with_default_pool_set(r, th) == [r.c EXCEPT !.tls[th] = r.pool]

\* Mutant of DefaultPool_make: one pool for the process (a static), kept
\* where thread w1's is.
DefaultPool_make_static(c, th) ==
    with_default_pool_set(
        Pool_make(with_default_pool_take(c, "w1"), c.tls["w1"]), "w1")

DefaultPool_make(c, th) ==
    with_default_pool_set(
        Pool_make(with_default_pool_take(c, th), c.tls[th]), th)

DefaultPool_save(c, th, buffer) ==
    with_default_pool_set(
        Pool_save(with_default_pool_take(c, th), c.tls[th], buffer), th)

\* Pool::free: the pool becomes Pool::default(), its buffers are dropped.
RECURSIVE DropAll(_, _)
DropAll(c, pool) ==
    IF pool = <<>> THEN c
    ELSE DropAll(Buffer_drop(c, pool[1]), Tail(pool))

\* Mutant of Pool_free: every buffer ever made is released, those on loan
\* too.
Pool_free_loans(c, pool) ==
    [c |-> [c EXCEPT !.heap = [b \in DOMAIN c.heap |-> Buffer_default]],
     pool |-> Pool_default]

Pool_free(c, pool) == [c |-> DropAll(c, pool), pool |-> Pool_default]

DefaultPool_free(c, th) ==
    with_default_pool_set(
        Pool_free(with_default_pool_take(c, th), c.tls[th]), th)

\* The strategy `strat` of task t running on thread th (trait Allocation).
Allocation_make(c, strat, t, th) ==
    CASE strat = "OneTime" -> OneTime_make(c)
      [] strat = "Pool" ->
           LET r == Pool_make(c, c.own[t])
           IN  [r.c EXCEPT !.own[t] = r.pool]
      [] strat = "DefaultPool" -> DefaultPool_make(c, th)

Allocation_save(c, strat, t, th, buffer) ==
    CASE strat = "OneTime" -> OneTime_save(c, buffer)
      [] strat = "Pool" ->
           LET r == Pool_save(c, c.own[t], buffer)
           IN  [r.c EXCEPT !.own[t] = r.pool]
      [] strat = "DefaultPool" -> DefaultPool_save(c, th, buffer)

Allocation_free(c, strat, t, th) ==
    CASE strat = "OneTime" -> c
      [] strat = "Pool" ->
           LET r == Pool_free(c, c.own[t])
           IN  [r.c EXCEPT !.own[t] = r.pool]
      [] strat = "DefaultPool" -> DefaultPool_free(c, th)

\* The calls an operation of tree.rs makes on its strategy, logged in the
\* operation's trace.
allocation_make(c, strat, t, th) ==
    LET made == Allocation_make(c, strat, t, th)
    IN  Log(made, Ev("make", made.ret, 0, ""))

allocation_save(c, strat, t, th, buffer) ==
    Log(Allocation_save(c, strat, t, th, buffer), Ev("save", buffer, 0, ""))

----------------------------------------------------------------------------
\* The sled partition (external): one atomic call each.

sled_contains_key(store, k) == k \in DOMAIN store

sled_get(store, k) == IF k \in DOMAIN store THEN Some(store[k]) ELSE None

\* insert: last write wins, the previous value is returned.
sled_insert(store, k, v) ==
    [store |-> [x \in DOMAIN store \cup {k} |-> IF x = k THEN v ELSE store[x]],
     prev |-> sled_get(store, k)]

sled_remove(store, k) ==
    [store |-> [x \in DOMAIN store \ {k} |-> store[x]],
     prev |-> sled_get(store, k)]

----------------------------------------------------------------------------
\* tree.rs: the raw operations.  `wk`, `wv`: the bytes the key and value
\* encodings get to write; `sled_ok`: whether the store call succeeds.

contains_key_raw(c, key, kbuf, wk, sled_ok) ==
    LET e == Buffer_encode(c, kbuf, key, wk)
    IN  IF ~e.ret.ok THEN e
        ELSE IF ~sled_ok THEN [e EXCEPT !.ret = ResErr("Sled")]
        ELSE [e EXCEPT !.ret = ResOk(sled_contains_key(e.store, e.ret.val))]

\* Mutant of insert_raw: the store is handed the value where the key goes.
insert_raw_swapped(c, key, val, kbuf, vbuf, wk, wv, sled_ok) ==
    LET ek == Buffer_encode(c, kbuf, key, wk)
        ev == Buffer_encode(ek, vbuf, val, wv)
        ins == sled_insert(ev.store, ev.ret.val, ek.ret.val)
        after == [ev EXCEPT !.store = ins.store]
    IN  IF ~ek.ret.ok THEN ek
        ELSE IF ~ev.ret.ok THEN ev
        ELSE IF ~sled_ok THEN [ev EXCEPT !.ret = ResErr("Sled")]
        ELSE [after EXCEPT !.ret = ResOk(None)]

\* Mutant of insert_raw: an entry already there is kept (insert if absent).
insert_raw_if_absent(c, key, val, kbuf, vbuf, wk, wv, sled_ok) ==
    LET ek == Buffer_encode(c, kbuf, key, wk)
        ev == Buffer_encode(ek, vbuf, val, wv)
        ins == sled_insert(ev.store, ek.ret.val, ev.ret.val)
        after == IF ins.prev.some THEN ev ELSE [ev EXCEPT !.store = ins.store]
    IN  IF ~ek.ret.ok THEN ek
        ELSE IF ~ev.ret.ok THEN ev
        ELSE IF ~sled_ok THEN [ev EXCEPT !.ret = ResErr("Sled")]
        ELSE [after EXCEPT !.ret = ResOk(None)]

\* Mutant of insert_raw: the previous value is read and decoded before the
\* store is written, and a decode error returns with nothing written.
insert_raw_decodes_first(c, key, val, kbuf, vbuf, wk, wv, sled_ok) ==
    LET ek == Buffer_encode(c, kbuf, key, wk)
        ev == Buffer_encode(ek, vbuf, val, wv)
        ins == sled_insert(ev.store, ek.ret.val, ev.ret.val)
        after == [ev EXCEPT !.store = ins.store]
    IN  IF ~ek.ret.ok THEN ek
        ELSE IF ~ev.ret.ok THEN ev
        ELSE IF ~sled_ok THEN [ev EXCEPT !.ret = ResErr("Sled")]
        ELSE IF ~ins.prev.some THEN [after EXCEPT !.ret = ResOk(None)]
        ELSE LET d == decode(ins.prev.v)
             IN  IF d.ok THEN [after EXCEPT !.ret = ResOk(Some(d.val))]
                 ELSE [ev EXCEPT !.ret = ResErr("Serde")]

insert_raw(c, key, val, kbuf, vbuf, wk, wv, sled_ok) ==
    LET ek == Buffer_encode(c, kbuf, key, wk)
        ev == Buffer_encode(ek, vbuf, val, wv)
        ins == sled_insert(ev.store, ek.ret.val, ev.ret.val)
        after == [ev EXCEPT !.store = ins.store]
    IN  IF ~ek.ret.ok THEN ek
        ELSE IF ~ev.ret.ok THEN ev
        ELSE IF ~sled_ok THEN [ev EXCEPT !.ret = ResErr("Sled")]
        ELSE IF ~ins.prev.some THEN [after EXCEPT !.ret = ResOk(None)]
        ELSE LET d == decode(ins.prev.v)
             IN  IF d.ok THEN [after EXCEPT !.ret = ResOk(Some(d.val))]
                 ELSE [after EXCEPT !.ret = ResErr("Serde")]

\* Mutant of get_raw: the bytes decoded are those of the key buffer.
get_raw_decodes_key(c, key, kbuf, wk, sled_ok) ==
    LET e == Buffer_encode(c, kbuf, key, wk)
        maybe == sled_get(e.store, e.ret.val)
    IN  IF ~e.ret.ok THEN e
        ELSE IF ~sled_ok THEN [e EXCEPT !.ret = ResErr("Sled")]
        ELSE IF ~maybe.some THEN [e EXCEPT !.ret = ResOk(None)]
        ELSE LET d == decode(e.heap[kbuf])
             IN  IF d.ok THEN [e EXCEPT !.ret = ResOk(Some(d.val))]
                 ELSE [e EXCEPT !.ret = ResErr("Serde")]

get_raw(c, key, kbuf, wk, sled_ok) ==
    LET e == Buffer_encode(c, kbuf, key, wk)
        maybe == sled_get(e.store, e.ret.val)
    IN  IF ~e.ret.ok THEN e
        ELSE IF ~sled_ok THEN [e EXCEPT !.ret = ResErr("Sled")]
        ELSE IF ~maybe.some THEN [e EXCEPT !.ret = ResOk(None)]
        ELSE LET d == decode(maybe.v)
             IN  IF d.ok THEN [e EXCEPT !.ret = ResOk(Some(d.val))]
                 ELSE [e EXCEPT !.ret = ResErr("Serde")]

\* Mutant of remove_raw: the entry is read and left in the store.
remove_raw_reads(c, key, kbuf, wk, sled_ok) ==
    LET e == Buffer_encode(c, kbuf, key, wk)
        rem == sled_remove(e.store, e.ret.val)
    IN  IF ~e.ret.ok THEN e
        ELSE IF ~sled_ok THEN [e EXCEPT !.ret = ResErr("Sled")]
        ELSE IF ~rem.prev.some THEN [e EXCEPT !.ret = ResOk(None)]
        ELSE LET d == decode(rem.prev.v)
             IN  IF d.ok THEN [e EXCEPT !.ret = ResOk(Some(d.val))]
                 ELSE [e EXCEPT !.ret = ResErr("Serde")]

remove_raw(c, key, kbuf, wk, sled_ok) ==
    LET e == Buffer_encode(c, kbuf, key, wk)
        rem == sled_remove(e.store, e.ret.val)
        after == [e EXCEPT !.store = rem.store]
    IN  IF ~e.ret.ok THEN e
        ELSE IF ~sled_ok THEN [e EXCEPT !.ret = ResErr("Sled")]
        ELSE IF ~rem.prev.some THEN [after EXCEPT !.ret = ResOk(None)]
        ELSE LET d == decode(rem.prev.v)
             IN  IF d.ok THEN [after EXCEPT !.ret = ResOk(Some(d.val))]
                 ELSE [after EXCEPT !.ret = ResErr("Serde")]

----------------------------------------------------------------------------
\* tree.rs: the operations of Tree, each from its make to its last save.
\* None of them suspends in between.

OutOpt(res) ==
    IF ~res.ok THEN OutErr(res.err)
    ELSE IF res.val.some THEN [tag |-> "Some", key |-> 0, val |-> res.val.v, err |-> ""]
    ELSE OutNone

OutBool(res) ==
    IF ~res.ok THEN OutErr(res.err)
    ELSE [tag |-> IF res.val THEN "True" ELSE "False", key |-> 0, val |-> 0, err |-> ""]

\* Mutant of get_with: an error of get_raw returns at once, as `?` would.
get_with_early_return(c, key, strat, t, th, wk, sled_ok) ==
    LET m == allocation_make(c, strat, t, th)
        c1 == [m EXCEPT !.kb = m.ret]
        r == get_raw(Log(c1, Ev("get", key, 0, "")), key, c1.kb, wk, sled_ok)
        s == allocation_save(r, strat, t, th, c1.kb)
    IN  IF ~r.ret.ok THEN [r EXCEPT !.out = OutOpt(r.ret), !.pc = "done"]
        ELSE [s EXCEPT !.kb = NoBuf, !.out = OutOpt(r.ret), !.pc = "done"]

get_with(c, key, strat, t, th, wk, sled_ok) ==
    LET m == allocation_make(c, strat, t, th)
        c1 == [m EXCEPT !.kb = m.ret]
        r == get_raw(Log(c1, Ev("get", key, 0, "")), key, c1.kb, wk, sled_ok)
        s == allocation_save(r, strat, t, th, c1.kb)
    IN  [s EXCEPT !.kb = NoBuf, !.out = OutOpt(r.ret), !.pc = "done"]

insert_with(c, key, val, strat, t, th, wk, wv, sled_ok) ==
    LET m1 == allocation_make(c, strat, t, th)
        m2 == allocation_make([m1 EXCEPT !.kb = m1.ret], strat, t, th)
        c1 == [m2 EXCEPT !.vb = m2.ret]
        r == insert_raw(Log(c1, Ev("insert", key, val, "")), key, val,
                        c1.kb, c1.vb, wk, wv, sled_ok)
        s1 == allocation_save(r, strat, t, th, c1.kb)
        s2 == allocation_save(s1, strat, t, th, c1.vb)
    IN  [s2 EXCEPT !.kb = NoBuf, !.vb = NoBuf, !.out = OutOpt(r.ret),
                   !.pc = "done"]

contains_key_with(c, key, strat, t, th, wk, sled_ok) ==
    LET m == allocation_make(c, strat, t, th)
        c1 == [m EXCEPT !.kb = m.ret]
        r == contains_key_raw(Log(c1, Ev("contains_key", key, 0, "")), key,
                              c1.kb, wk, sled_ok)
        s == allocation_save(r, strat, t, th, c1.kb)
    IN  [s EXCEPT !.kb = NoBuf, !.out = OutBool(r.ret), !.pc = "done"]

remove_with(c, key, strat, t, th, wk, sled_ok) ==
    LET m == allocation_make(c, strat, t, th)
        c1 == [m EXCEPT !.kb = m.ret]
        r == remove_raw(Log(c1, Ev("remove", key, 0, "")), key, c1.kb, wk,
                        sled_ok)
        s == allocation_save(r, strat, t, th, c1.kb)
    IN  [s EXCEPT !.kb = NoBuf, !.out = OutOpt(r.ret), !.pc = "done"]

----------------------------------------------------------------------------
\* tree.rs: IdBuilder.  The hooks are the caller's: the id-maker of a
\* builder maps raw ids 1:1 to keys ("OneToOne") or returns whatever key
\* it likes ("Any"); the data-maker returns any value.  Both may fail.

\* The typed keys the id-maker may make of raw id `raw`: one for the 1:1
\* id-maker, any key for the "Any" id-maker, a stateful FnMut.
make_id(maker, raw) ==
    CASE maker = "OneToOne" -> {(MaxId - 1) - raw}
      [] maker = "Any" -> Keys

\* The error conversor of the builder: internal error -> caller's error.
make_error(e) ==
    CASE e = "Sled" -> "FromSled"
      [] e = "Serde" -> "FromSerde"
      [] OTHER -> "FromCustom"

Convert(c, e) ==
    [Log(c, Ev("make_error", 0, 0, e)) EXCEPT !.ret = make_error(e)]

\* Mutant of generate_exit: only the key buffer is saved.
generate_exit_key_only(c, strat, t, th, out) ==
    LET s1 == allocation_save(c, strat, t, th, c.kb)
    IN  [s1 EXCEPT !.kb = NoBuf, !.out = out, !.pc = "done"]

\* Lines 535-538: both buffers go back to the strategy, the output is
\* returned.
generate_exit(c, strat, t, th, out) ==
    LET s1 == allocation_save(c, strat, t, th, c.kb)
        s2 == allocation_save(s1, strat, t, th, c.vb)
    IN  [s2 EXCEPT !.kb = NoBuf, !.vb = NoBuf, !.out = out, !.pc = "done"]

\* Mutant of generate_loop: an attempt draws a raw id and drops it before
\* it draws the one it uses.
generate_loop_redraws(c, strat, t, th, gen_ok) ==
    IF gen_ok
    THEN LET c0 == Log([c EXCEPT !.nid = @ + 1],
                       Ev("generate_id", c.nid, 0, ""))
             g == c0.nid
             c1 == Log([c0 EXCEPT !.nid = @ + 1, !.gen = g],
                       Ev("generate_id", g, 0, ""))
         IN  [Log(c1, Ev("make_id", g, 0, "")) EXCEPT !.pc = "await_id"]
    ELSE LET c1 == Convert(Log(c, Ev("generate_id", 0, 0, "Sled")), "Sled")
         IN  generate_exit(c1, strat, t, th, OutErr(c1.ret))

\* Mutant of generate_loop: the error of generate_id is returned as it is.
generate_loop_unconverted(c, strat, t, th, gen_ok) ==
    IF gen_ok
    THEN LET g == c.nid
             c1 == Log([c EXCEPT !.nid = @ + 1, !.gen = g],
                       Ev("generate_id", g, 0, ""))
         IN  [Log(c1, Ev("make_id", g, 0, "")) EXCEPT !.pc = "await_id"]
    ELSE generate_exit(Log(c, Ev("generate_id", 0, 0, "Sled")), strat, t, th,
                       OutErr("Sled"))

\* Lines 501-505: the top of the loop, up to the await of the id-maker's
\* future.
generate_loop(c, strat, t, th, gen_ok) ==
    IF gen_ok
    THEN LET g == c.nid
             c1 == Log([c EXCEPT !.nid = @ + 1, !.gen = g],
                       Ev("generate_id", g, 0, ""))
         IN  [Log(c1, Ev("make_id", g, 0, "")) EXCEPT !.pc = "await_id"]
    ELSE LET c1 == Convert(Log(c, Ev("generate_id", 0, 0, "Sled")), "Sled")
         IN  generate_exit(c1, strat, t, th, OutErr(c1.ret))

\* Lines 497-498, then the loop.
generate_enter(c, strat, t, th, gen_ok) ==
    LET m1 == allocation_make(c, strat, t, th)
        m2 == allocation_make([m1 EXCEPT !.kb = m1.ret], strat, t, th)
    IN  generate_loop([m2 EXCEPT !.vb = m2.ret], strat, t, th, gen_ok)

\* Mutant of generate_with_id: the second collision of a call gives up.
generate_with_id_gives_up(c, strat, t, th, res, wk, sled_ok) ==
    IF ~res.ok
    THEN generate_exit(Log(c, Ev("make_id_failed", c.gen, 0, res.err)),
                       strat, t, th, OutErr(res.err))
    ELSE
      LET c1 == [c EXCEPT !.id = res.val]
          c2 == contains_key_raw(c1, c1.id, c1.kb, wk, sled_ok)
          collided == \E i \in 1 .. Len(c.tr) : c.tr[i].op = "yield_now"
      IN  IF ~c2.ret.ok
          THEN LET c3 == Convert(Log(c2, Ev("contains_key", c1.id, 0, c2.ret.err)),
                                 c2.ret.err)
               IN  generate_exit(c3, strat, t, th, OutErr(c3.ret))
          ELSE IF c2.ret.val /\ collided
          THEN generate_exit(Log(c2, Ev("contains_key", c1.id, 1, "")),
                             strat, t, th, OutErr("TooManyCollisions"))
          ELSE IF c2.ret.val
          THEN [Log(Log(c2, Ev("contains_key", c1.id, 1, "")),
                    Ev("yield_now", 0, 0, ""))
                  EXCEPT !.pc = "yield_now"]
          ELSE [Log(Log(c2, Ev("contains_key", c1.id, 0, "")),
                    Ev("make_data", c1.id, 0, ""))
                  EXCEPT !.pc = "await_data"]

\* Mutant of generate_with_id: the result of the presence check is ignored.
generate_with_id_unchecked(c, strat, t, th, res, wk, sled_ok) ==
    IF ~res.ok
    THEN generate_exit(Log(c, Ev("make_id_failed", c.gen, 0, res.err)),
                       strat, t, th, OutErr(res.err))
    ELSE
      LET c1 == [c EXCEPT !.id = res.val]
          c2 == contains_key_raw(c1, c1.id, c1.kb, wk, sled_ok)
      IN  IF ~c2.ret.ok
          THEN LET c3 == Convert(Log(c2, Ev("contains_key", c1.id, 0, c2.ret.err)),
                                 c2.ret.err)
               IN  generate_exit(c3, strat, t, th, OutErr(c3.ret))
          ELSE [Log(Log(c2, Ev("contains_key", c1.id,
                               IF c2.ret.val THEN 1 ELSE 0, "")),
                    Ev("make_data", c1.id, 0, ""))
                  EXCEPT !.pc = "await_data"]

\* Mutant of generate_with_id: a key found absent is reserved in the tree,
\* with the value 0, before the data-maker is called.
generate_with_id_reserves(c, strat, t, th, res, wk, sled_ok) ==
    IF ~res.ok
    THEN generate_exit(Log(c, Ev("make_id_failed", c.gen, 0, res.err)),
                       strat, t, th, OutErr(res.err))
    ELSE
      LET c1 == [c EXCEPT !.id = res.val]
          c2 == contains_key_raw(c1, c1.id, c1.kb, wk, sled_ok)
          c3 == insert_raw(Log(c2, Ev("contains_key", c1.id, 0, "")), c1.id,
                           0, c1.kb, c1.vb, wk, Len(encode(0)), sled_ok)
      IN  IF ~c2.ret.ok
          THEN LET c4 == Convert(Log(c2, Ev("contains_key", c1.id, 0, c2.ret.err)),
                                 c2.ret.err)
               IN  generate_exit(c4, strat, t, th, OutErr(c4.ret))
          ELSE IF c2.ret.val
          THEN [Log(Log(c2, Ev("contains_key", c1.id, 1, "")),
                    Ev("yield_now", 0, 0, ""))
                  EXCEPT !.pc = "yield_now"]
          ELSE [Log(Log(c3, Ev("insert", c1.id, 0, "")),
                    Ev("make_data", c1.id, 0, ""))
                  EXCEPT !.pc = "await_data"]

\* Lines 505-517 and 532: the id-maker's future resolved with `res`.
generate_with_id(c, strat, t, th, res, wk, sled_ok) ==
    IF ~res.ok
    THEN generate_exit(Log(c, Ev("make_id_failed", c.gen, 0, res.err)),
                       strat, t, th, OutErr(res.err))
    ELSE
      LET c1 == [c EXCEPT !.id = res.val]
          c2 == contains_key_raw(c1, c1.id, c1.kb, wk, sled_ok)
      IN  IF ~c2.ret.ok
          THEN LET c3 == Convert(Log(c2, Ev("contains_key", c1.id, 0, c2.ret.err)),
                                 c2.ret.err)
               IN  generate_exit(c3, strat, t, th, OutErr(c3.ret))
          ELSE IF c2.ret.val
          THEN [Log(Log(c2, Ev("contains_key", c1.id, 1, "")),
                    Ev("yield_now", 0, 0, ""))
                  EXCEPT !.pc = "yield_now"]
          ELSE [Log(Log(c2, Ev("contains_key", c1.id, 0, "")),
                    Ev("make_data", c1.id, 0, ""))
                  EXCEPT !.pc = "await_data"]

\* Mutant of generate_with_data: the data-maker's error goes through the
\* error conversor.
generate_with_data_converted(c, strat, t, th, res, wk, wv, sled_ok) ==
    IF ~res.ok
    THEN LET c0 == Convert(Log(c, Ev("make_data_failed", c.id, 0, res.err)),
                           res.err)
         IN  generate_exit(c0, strat, t, th, OutErr(c0.ret))
    ELSE
      LET data == res.val
          c1 == insert_raw(c, c.id, data, c.kb, c.vb, wk, wv, sled_ok)
      IN  IF ~c1.ret.ok
          THEN LET c2 == Convert(Log(c1, Ev("insert", c.id, data, c1.ret.err)),
                                 c1.ret.err)
               IN  generate_exit(c2, strat, t, th, OutErr(c2.ret))
          ELSE generate_exit(Log(c1, Ev("insert", c.id, data, "")),
                             strat, t, th, OutOk(c.id, data))

\* Mutant of generate_with_data: a failed insert asks the data-maker again.
generate_with_data_again(c, strat, t, th, res, wk, wv, sled_ok) ==
    IF ~res.ok
    THEN generate_exit(Log(c, Ev("make_data_failed", c.id, 0, res.err)),
                       strat, t, th, OutErr(res.err))
    ELSE
      LET data == res.val
          c1 == insert_raw(c, c.id, data, c.kb, c.vb, wk, wv, sled_ok)
      IN  IF ~c1.ret.ok
          THEN [Log(Log(c1, Ev("insert", c.id, data, c1.ret.err)),
                    Ev("make_data", c.id, 0, ""))
                  EXCEPT !.pc = "await_data"]
          ELSE generate_exit(Log(c1, Ev("insert", c.id, data, "")),
                             strat, t, th, OutOk(c.id, data))

\* Lines 517-530: the data-maker's future resolved with `res`.
generate_with_data(c, strat, t, th, res, wk, wv, sled_ok) ==
    IF ~res.ok
    THEN generate_exit(Log(c, Ev("make_data_failed", c.id, 0, res.err)),
                       strat, t, th, OutErr(res.err))
    ELSE
      LET data == res.val
          c1 == insert_raw(c, c.id, data, c.kb, c.vb, wk, wv, sled_ok)
      IN  IF ~c1.ret.ok
          THEN LET c2 == Convert(Log(c1, Ev("insert", c.id, data, c1.ret.err)),
                                 c1.ret.err)
               IN  generate_exit(c2, strat, t, th, OutErr(c2.ret))
          ELSE generate_exit(Log(c1, Ev("insert", c.id, data, "")),
                             strat, t, th, OutOk(c.id, data))

\* Mutant of generate_drop: the dropped future hands its buffers back to
\* the strategy, as a drop guard would.
generate_drop_saves(c, strat, t, th) ==
    LET s1 == allocation_save(Log(c, Ev("drop", 0, 0, "")), strat, t, th, c.kb)
        s2 == allocation_save(s1, strat, t, th, c.vb)
    IN  [s2 EXCEPT !.kb = NoBuf, !.vb = NoBuf, !.pc = "cancelled"]

\* The future of generate dropped at one of its awaits: key_buf and val_buf
\* (lines 497-498) are locals of the future and are dropped with it; the
\* strategy is not called.
generate_drop(c, strat, t, th) ==
    LET d1 == Buffer_drop(Log(c, Ev("drop", 0, 0, "")), c.kb)
        d2 == Buffer_drop(d1, c.vb)
    IN  [d2 EXCEPT !.kb = NoBuf, !.vb = NoBuf, !.pc = "cancelled"]

----------------------------------------------------------------------------
\* Actions

Init ==
    /\ storage = <<>>
    /\ nextId = 0
    /\ DEFAULT_POOL = [th \in Threads |-> Pool_default]
    /\ ownPool = [t \in Tasks |-> Pool_default]
    /\ heap = <<>>
    /\ nextBuf = 0
    /\ pc = [t \in Tasks |-> "idle"]
    /\ cfg = [t \in Tasks |-> NoCfg]
    /\ key_buf = [t \in Tasks |-> NoBuf]
    /\ val_buf = [t \in Tasks |-> NoBuf]
    /\ generated = [t \in Tasks |-> 0]
    /\ id = [t \in Tasks |-> 0]
    /\ output = [t \in Tasks |-> OutNone]
    /\ trace = [t \in Tasks |-> <<>>]
    /\ held = [t \in Tasks |-> {}]
    /\ called = NoCall

\* The context c becomes the state, within the bounds.
Commit(t, c) ==
    /\ c.next <= MaxBufs
    /\ c.nid <= MaxId
    /\ storage' = c.store
    /\ nextId' = c.nid
    /\ DEFAULT_POOL' = c.tls
    /\ ownPool' = c.own
    /\ heap' = c.heap
    /\ nextBuf' = c.next
    /\ pc' = [pc EXCEPT ![t] = c.pc]
    /\ key_buf' = [key_buf EXCEPT ![t] = c.kb]
    /\ val_buf' = [val_buf EXCEPT ![t] = c.vb]
    /\ generated' = [generated EXCEPT ![t] = c.gen]
    /\ id' = [id EXCEPT ![t] = c.id]
    /\ output' = [output EXCEPT ![t] = c.out]
    /\ trace' = [trace EXCEPT ![t] = c.tr]

HookResults(vals) ==
    {ResOk(v) : v \in vals} \cup {ResErr(e) : e \in CallerErrors}

\* A task calls generate on a builder with strategy `strat` and id-maker
\* `maker`, and runs to the first await.
Generate(t, strats, makers) ==
    /\ pc[t] = "idle"
    /\ \E strat \in strats, maker \in makers, th \in Threads,
          gen_ok \in BOOLEAN :
         /\ cfg' = [cfg EXCEPT ![t] =
                      [op |-> "generate", strat |-> strat, maker |-> maker]]
         /\ Commit(t, generate_enter(Ctx(t), strat, t, th, gen_ok))
         /\ UNCHANGED <<held, called>>

\* A task calls generate on thread `th`, where it runs to the first await.
GenerateOn(t, th, strat, maker) ==
    /\ pc[t] = "idle"
    /\ \E gen_ok \in BOOLEAN :
         /\ cfg' = [cfg EXCEPT ![t] =
                      [op |-> "generate", strat |-> strat, maker |-> maker]]
         /\ Commit(t, generate_enter(Ctx(t), strat, t, th, gen_ok))
         /\ UNCHANGED <<held, called>>

\* The id-maker's future resolves; the task runs to the next await or to
\* the end.
IdMade(t) ==
    /\ pc[t] = "await_id"
    /\ \E th \in Threads, sled_ok \in BOOLEAN :
       \E res \in HookResults(make_id(cfg[t].maker, generated[t])) :
       \E wk \in Written(res.val) :
         /\ Commit(t, generate_with_id(Ctx(t), cfg[t].strat, t, th, res, wk,
                                       sled_ok))
         /\ UNCHANGED <<cfg, held, called>>

\* The data-maker's future resolves; the task inserts and returns.
DataMade(t) ==
    /\ pc[t] = "await_data"
    /\ \E th \in Threads, sled_ok \in BOOLEAN :
       \E res \in HookResults(Vals) :
       \E wk \in Written(id[t]), wv \in Written(res.val) :
         /\ Commit(t, generate_with_data(Ctx(t), cfg[t].strat, t, th, res,
                                         wk, wv, sled_ok))
         /\ UNCHANGED <<cfg, held, called>>

\* The task is polled again after yield_now and starts the next attempt.
Yielded(t) ==
    /\ pc[t] = "yield_now"
    /\ \E th \in Threads, gen_ok \in BOOLEAN :
         /\ Commit(t, generate_loop(Ctx(t), cfg[t].strat, t, th, gen_ok))
         /\ UNCHANGED <<cfg, held, called>>

\* The task is cancelled while suspended in generate: its future is
\* dropped, on whatever thread drops it.
Cancel(t) ==
    /\ pc[t] \in {"await_id", "await_data", "yield_now"}
    /\ \E th \in Threads :
         /\ Commit(t, generate_drop(Ctx(t), cfg[t].strat, t, th))
         /\ UNCHANGED <<cfg, held, called>>

\* A task calls one operation of Tree, which runs to its end.
TreeGet(t, strats) ==
    /\ pc[t] = "idle"
    /\ \E strat \in strats, th \in Threads, key \in Keys, sled_ok \in BOOLEAN :
       \E wk \in Written(key) :
         /\ cfg' = [cfg EXCEPT ![t] =
                      [op |-> "get", strat |-> strat, maker |-> "Any"]]
         /\ Commit(t, get_with(Ctx(t), key, strat, t, th, wk, sled_ok))
         /\ UNCHANGED <<held, called>>

TreeInsert(t, strats) ==
    /\ pc[t] = "idle"
    /\ \E strat \in strats, th \in Threads, key \in Keys, val \in Vals,
          sled_ok \in BOOLEAN :
       \E wk \in Written(key), wv \in Written(val) :
         /\ cfg' = [cfg EXCEPT ![t] =
                      [op |-> "insert", strat |-> strat, maker |-> "Any"]]
         /\ Commit(t, insert_with(Ctx(t), key, val, strat, t, th, wk, wv,
                                  sled_ok))
         /\ UNCHANGED <<held, called>>

TreeContainsKey(t, strats) ==
    /\ pc[t] = "idle"
    /\ \E strat \in strats, th \in Threads, key \in Keys, sled_ok \in BOOLEAN :
       \E wk \in Written(key) :
         /\ cfg' = [cfg EXCEPT ![t] =
                      [op |-> "contains_key", strat |-> strat, maker |-> "Any"]]
         /\ Commit(t, contains_key_with(Ctx(t), key, strat, t, th, wk, sled_ok))
         /\ UNCHANGED <<held, called>>

TreeRemove(t, strats) ==
    /\ pc[t] = "idle"
    /\ \E strat \in strats, th \in Threads, key \in Keys, sled_ok \in BOOLEAN :
       \E wk \in Written(key) :
         /\ cfg' = [cfg EXCEPT ![t] =
                      [op |-> "remove", strat |-> strat, maker |-> "Any"]]
         /\ Commit(t, remove_with(Ctx(t), key, strat, t, th, wk, sled_ok))
         /\ UNCHANGED <<held, called>>

\* Concurrent generate calls, each task one call, on builders with the
\* default strategy (Tree::id_builder).
Next ==
    \E t \in Tasks :
        \/ Generate(t, {"DefaultPool"}, IdMakers)
        \/ IdMade(t)
        \/ DataMade(t)
        \/ Yielded(t)

Spec == Init /\ [][Next]_vars

\* Concurrent generate calls, each task one call, on builders with any
\* strategy.
NextAlloc ==
    \E t \in Tasks :
        \/ Generate(t, Strategies, {"Any"})
        \/ IdMade(t)
        \/ DataMade(t)
        \/ Yielded(t)

SpecAlloc == Init /\ [][NextAlloc]_vars

\* Two operations of Tree, t2's after t1's, on a partition that may hold an
\* entry another program wrote.
InitTree ==
    /\ storage \in {<<>>, [k \in {encode(0)} |-> <<>>]}
    /\ nextId = 0
    /\ DEFAULT_POOL = [th \in Threads |-> Pool_default]
    /\ ownPool = [t \in Tasks |-> Pool_default]
    /\ heap = <<>>
    /\ nextBuf = 0
    /\ pc = [t \in Tasks |-> "idle"]
    /\ cfg = [t \in Tasks |-> NoCfg]
    /\ key_buf = [t \in Tasks |-> NoBuf]
    /\ val_buf = [t \in Tasks |-> NoBuf]
    /\ generated = [t \in Tasks |-> 0]
    /\ id = [t \in Tasks |-> 0]
    /\ output = [t \in Tasks |-> OutNone]
    /\ trace = [t \in Tasks |-> <<>>]
    /\ held = [t \in Tasks |-> {}]
    /\ called = NoCall

TreeOp(t) ==
    \/ TreeGet(t, Strategies)
    \/ TreeInsert(t, Strategies)
    \/ TreeContainsKey(t, Strategies)
    \/ TreeRemove(t, Strategies)

NextTree ==
    \/ TreeOp("t1")
    \/ pc["t1"] = "done" /\ TreeOp("t2")

SpecTree == InitTree /\ [][NextTree]_vars

\* The strategies called directly: a task makes buffers, holds them, and
\* saves them, through any strategy and on any thread; anyone frees.
Make(t) ==
    \E strat \in Strategies, th \in Threads :
        LET c == Allocation_make(Ctx(t), strat, t, th)
        IN  /\ Commit(t, c)
            /\ held' = [held EXCEPT ![t] = @ \cup {c.ret}]
            /\ UNCHANGED <<cfg, called>>

Save(t) ==
    \E strat \in Strategies, th \in Threads, buffer \in held[t] :
        /\ Commit(t, Allocation_save(Ctx(t), strat, t, th, buffer))
        /\ held' = [held EXCEPT ![t] = @ \ {buffer}]
        /\ UNCHANGED <<cfg, called>>

Free(t) ==
    \E strat \in Strategies, th \in Threads :
        /\ Commit(t, Allocation_free(Ctx(t), strat, t, th))
        /\ UNCHANGED <<cfg, held, called>>

NextPool ==
    \E t \in Tasks :
        \/ Make(t)
        \/ Save(t)
        \/ Free(t)

SpecPool == Init /\ [][NextPool]_vars

\* Concurrent generate calls through a Pool or the default pool, each of
\* which may be cancelled at any of its awaits.
NextCancel ==
    \E t \in Tasks :
        \/ Generate(t, {"Pool", "DefaultPool"}, {"Any"})
        \/ IdMade(t)
        \/ DataMade(t)
        \/ Yielded(t)
        \/ Cancel(t)

SpecCancel == Init /\ [][NextCancel]_vars

\* Two generate calls through the default pool, the second after the first
\* returned, both called on thread w1; a call that awaited may be resumed
\* on any worker thread.  Nothing is freed or cancelled.
NextSeq ==
    \/ GenerateOn("t1", "w1", "DefaultPool", "Any")
    \/ pc["t1"] = "done" /\ GenerateOn("t2", "w1", "DefaultPool", "Any")
    \/ \E t \in Tasks : IdMade(t) \/ DataMade(t) \/ Yielded(t)

SpecSeq == Init /\ [][NextSeq]_vars

\* The same calls by one client, which notes each call it makes: the
\* method, the strategy, the thread it ran on, and the buffer returned
\* (make) or passed (save).
Called(op, t, strat, th, buffer) ==
    [op |-> op, t |-> t, strat |-> strat, th |-> th, buffer |-> buffer]

CallMake(t, strats, ths) ==
    \E strat \in strats, th \in ths :
        LET c == Allocation_make(Ctx(t), strat, t, th)
        IN  /\ Commit(t, c)
            /\ held' = [held EXCEPT ![t] = @ \cup {c.ret}]
            /\ called' = Called("make", t, strat, th, c.ret)
            /\ UNCHANGED cfg

CallSave(t, strats, ths) ==
    \E strat \in strats, th \in ths, buffer \in held[t] :
        /\ Commit(t, Allocation_save(Ctx(t), strat, t, th, buffer))
        /\ held' = [held EXCEPT ![t] = @ \ {buffer}]
        /\ called' = Called("save", t, strat, th, buffer)
        /\ UNCHANGED cfg

CallFree(t, strats, ths) ==
    \E strat \in strats, th \in ths :
        /\ Commit(t, Allocation_free(Ctx(t), strat, t, th))
        /\ called' = Called("free", t, strat, th, NoBuf)
        /\ UNCHANGED <<cfg, held>>

NextCalls ==
    \/ CallMake("t1", Strategies, Threads)
    \/ CallSave("t1", Strategies, Threads)
    \/ CallFree("t1", Strategies, Threads)

SpecCalls == Init /\ [][NextCalls]_vars

\* A client that also uses the buffers it holds: it encodes a value into
\* one (the encoding may fail) or frees one; the result of an encode, with
\* the value passed, is its output.  It works on thread w1, through a Pool or the default pool, and
\* holds at most two buffers at a time, as the operations of tree.rs do.
CallEncode(t) ==
    \E buffer \in held[t], data \in Vals :
    \E written \in Written(data) :
        LET e == Buffer_encode(Ctx(t), buffer, data, written)
        IN  /\ Commit(t, [e EXCEPT !.out =
                         IF e.ret.ok THEN OutOk(0, data)
                         ELSE [OutErr(e.ret.err) EXCEPT !.val = data]])
            /\ called' = Called("encode", t, "OneTime", "w1", buffer)
            /\ UNCHANGED <<cfg, held>>

CallBufferFree(t) ==
    \E buffer \in held[t] :
        /\ Commit(t, Buffer_free(Ctx(t), buffer))
        /\ called' = Called("buffer_free", t, "OneTime", "w1", buffer)
        /\ UNCHANGED <<cfg, held>>

\* The client was given one strategy, a Pool or the default pool, and
\* makes all its calls through it.
InitBytes ==
    /\ storage = <<>>
    /\ nextId = 0
    /\ DEFAULT_POOL = [th \in Threads |-> Pool_default]
    /\ ownPool = [t \in Tasks |-> Pool_default]
    /\ heap = <<>>
    /\ nextBuf = 0
    /\ pc = [t \in Tasks |-> "idle"]
    /\ \E strat \in {"Pool", "DefaultPool"} :
         cfg = [t \in Tasks |->
                  [op |-> "calls", strat |-> strat, maker |-> "Any"]]
    /\ key_buf = [t \in Tasks |-> NoBuf]
    /\ val_buf = [t \in Tasks |-> NoBuf]
    /\ generated = [t \in Tasks |-> 0]
    /\ id = [t \in Tasks |-> 0]
    /\ output = [t \in Tasks |-> OutNone]
    /\ trace = [t \in Tasks |-> <<>>]
    /\ held = [t \in Tasks |-> {}]
    /\ called = NoCall

NextBytes ==
    \/ /\ Cardinality(held["t1"]) < 2
       /\ CallMake("t1", {cfg["t1"].strat}, {"w1"})
    \/ CallSave("t1", {cfg["t1"].strat}, {"w1"})
    \/ CallFree("t1", {cfg["t1"].strat}, {"w1"})
    \/ CallEncode("t1")
    \/ CallBufferFree("t1")

SpecBytes == InitBytes /\ [][NextBytes]_vars

\* A remove, then a contains_key or another remove, on a partition that
\* may hold an entry inserted earlier through the Tree.
InitTyped ==
    /\ storage \in {<<>>} \cup {[k \in {encode(1)} |-> encode(v)] : v \in Vals}
    /\ nextId = 0
    /\ DEFAULT_POOL = [th \in Threads |-> Pool_default]
    /\ ownPool = [t \in Tasks |-> Pool_default]
    /\ heap = <<>>
    /\ nextBuf = 0
    /\ pc = [t \in Tasks |-> "idle"]
    /\ cfg = [t \in Tasks |-> NoCfg]
    /\ key_buf = [t \in Tasks |-> NoBuf]
    /\ val_buf = [t \in Tasks |-> NoBuf]
    /\ generated = [t \in Tasks |-> 0]
    /\ id = [t \in Tasks |-> 0]
    /\ output = [t \in Tasks |-> OutNone]
    /\ trace = [t \in Tasks |-> <<>>]
    /\ held = [t \in Tasks |-> {}]
    /\ called = NoCall

NextRemove ==
    \/ TreeRemove("t1", {"DefaultPool"})
    \/ pc["t1"] = "done" /\ TreeContainsKey("t2", {"DefaultPool"})
    \/ pc["t1"] = "done" /\ TreeRemove("t2", {"DefaultPool"})

SpecRemove == InitTyped /\ [][NextRemove]_vars

\* A client that also clones: a clone of a buffer it holds is one more
\* buffer it holds; a clone of its Pool replaces the Pool, which is dropped
\* with the buffers in it.
CallBufferClone(t) ==
    \E buffer \in held[t] :
        LET c == Buffer_clone(Ctx(t), buffer)
        IN  /\ Commit(t, c)
            /\ held' = [held EXCEPT ![t] = @ \cup {c.ret}]
            /\ called' = Called("buffer_clone", t, "OneTime", "w1", c.ret)
            /\ UNCHANGED cfg

CallPoolClone(t) ==
    LET r == Pool_clone(DropAll(Ctx(t), ownPool[t]), ownPool[t])
    IN  /\ cfg[t].strat = "Pool"
        /\ Commit(t, [r.c EXCEPT !.own[t] = r.pool])
        /\ called' = Called("pool_clone", t, "Pool", "w1", NoBuf)
        /\ UNCHANGED <<cfg, held>>

\* The client was given one strategy, OneTime or a Pool of its own, and
\* works on thread w1, holding at most two buffers at a time.
InitReuse ==
    /\ storage = <<>>
    /\ nextId = 0
    /\ DEFAULT_POOL = [th \in Threads |-> Pool_default]
    /\ ownPool = [t \in Tasks |-> Pool_default]
    /\ heap = <<>>
    /\ nextBuf = 0
    /\ pc = [t \in Tasks |-> "idle"]
    /\ \E strat \in {"OneTime", "Pool"} :
         cfg = [t \in Tasks |->
                  [op |-> "calls", strat |-> strat, maker |-> "Any"]]
    /\ key_buf = [t \in Tasks |-> NoBuf]
    /\ val_buf = [t \in Tasks |-> NoBuf]
    /\ generated = [t \in Tasks |-> 0]
    /\ id = [t \in Tasks |-> 0]
    /\ output = [t \in Tasks |-> OutNone]
    /\ trace = [t \in Tasks |-> <<>>]
    /\ held = [t \in Tasks |-> {}]
    /\ called = NoCall

NextReuse ==
    \/ /\ Cardinality(held["t1"]) < 2
       /\ CallMake("t1", {cfg["t1"].strat}, {"w1"})
    \/ CallSave("t1", {cfg["t1"].strat}, {"w1"})
    \/ CallEncode("t1")
    \/ CallBufferFree("t1")
    \/ /\ Cardinality(held["t1"]) < 2
       /\ CallBufferClone("t1")
    \/ CallPoolClone("t1")

SpecReuse == InitReuse /\ [][NextReuse]_vars

----------------------------------------------------------------------------
\* Reading a trace

Idx(t) == 1 .. Len(trace[t])
At(t, i) == trace[t][i]
Is(t, i, op) == i \in Idx(t) /\ At(t, i).op = op
Generating(t) == cfg[t].op = "generate"

\* The check of attempt i found the key present / absent.
FoundPresent(t, i) == Is(t, i, "contains_key") /\ At(t, i).e = "" /\ At(t, i).y = 1
FoundAbsent(t, i) == Is(t, i, "contains_key") /\ At(t, i).e = "" /\ At(t, i).y = 0

\* A step of the operation failed at i.
FailedAt(t, i) == i \in Idx(t) /\ At(t, i).e # "" /\ At(t, i).op # "make_error"

OnLoan(t) == held[t] \cup ({key_buf[t], val_buf[t]} \ {NoBuf})
Pools == {DEFAULT_POOL[th] : th \in Threads} \cup {ownPool[t] : t \in Tasks}
Pooled == UNION {Range(p) : p \in Pools}

----------------------------------------------------------------------------
\* C1: a buffer made is not made again before it is saved: no buffer is on
\* loan to two tasks, no buffer on loan is in a pool, and no buffer is
\* twice in the pools.
C1_LoanIsExclusive ==
    /\ \A t1, t2 \in Tasks : t1 # t2 => OnLoan(t1) \cap OnLoan(t2) = {}
    /\ \A t \in Tasks : key_buf[t] # NoBuf => key_buf[t] # val_buf[t]
    /\ \A t \in Tasks : OnLoan(t) \cap Pooled = {}
    /\ \A p \in Pools : Cardinality(Range(p)) = Len(p)
    /\ \A p1, p2 \in Pools : p1 # p2 => Range(p1) \cap Range(p2) = {}

\* Two tasks hold buffers while a thread's default pool and a Pool hold
\* others, saved after a buffer still on loan was made.
C1_Witness ==
    \E t1, t2 \in Tasks, th \in Threads :
        /\ t1 # t2
        /\ held[t1] # {} /\ held[t2] # {}
        /\ DEFAULT_POOL[th] # <<>> /\ ownPool[t1] # <<>>
        /\ \E b \in held[t1] : b < DEFAULT_POOL[th][1]

\* C2: an attempt of generate that finds its key present calls neither the
\* data-maker nor insert: it yields and draws a new raw id; and every
\* insert is of the key the same attempt found absent.
C2_NoInsertOnCollision ==
    \A t \in Tasks : Generating(t) =>
        \A i \in Idx(t) :
            /\ FoundPresent(t, i) =>
                 /\ Is(t, i + 1, "yield_now")
                 /\ i + 2 \in Idx(t) => Is(t, i + 2, "generate_id")
            /\ Is(t, i, "insert") =>
                 /\ Is(t, i - 1, "make_data")
                 /\ FoundAbsent(t, i - 2)
                 /\ At(t, i - 2).x = At(t, i).x
            /\ Is(t, i, "make_data") => FoundAbsent(t, i - 1)

\* A generate that found a key present, retried and inserted another key.
C2_Witness ==
    \E t \in Tasks :
        /\ Generating(t) /\ output[t].tag = "Ok"
        /\ \E i, j \in Idx(t) :
             /\ FoundPresent(t, i) /\ Is(t, j, "insert") /\ i < j
             /\ At(t, i).x # At(t, j).x

\* C3: when every generate uses the 1:1 id-maker, the keys returned by
\* the successful calls differ pairwise and each is in the tree with the
\* value returned with it.
Returned(t) == Generating(t) /\ pc[t] = "done" /\ output[t].tag = "Ok"

C3_ReturnedKeysDistinct ==
    (\A t \in Tasks : Generating(t) => cfg[t].maker = "OneToOne") =>
        /\ \A t1, t2 \in Tasks :
             t1 # t2 /\ Returned(t1) /\ Returned(t2) =>
                 output[t1].key # output[t2].key
        /\ \A t \in Tasks : Returned(t) =>
             /\ sled_contains_key(storage, encode(output[t].key))
             /\ decode(storage[encode(output[t].key)]) =
                    [ok |-> TRUE, val |-> output[t].val]

\* Both tasks returned from a generate with the 1:1 id-maker.
C3_Witness ==
    \A t \in Tasks : Returned(t) /\ cfg[t].maker = "OneToOne"

\* C4: a generate whose id-maker or data-maker failed is over, returns the
\* hook's error itself, and never called the error conversor.
C4_HookErrorAsIs ==
    \A t \in Tasks : Generating(t) =>
        \A i \in Idx(t) :
            Is(t, i, "make_id_failed") \/ Is(t, i, "make_data_failed") =>
                /\ pc[t] = "done"
                /\ output[t] = OutErr(At(t, i).e)
                /\ \A j \in Idx(t) : ~Is(t, j, "make_error")

\* One generate ended on its id-maker's error, the other on its
\* data-maker's.
C4_Witness ==
    \E t1, t2 \in Tasks :
        /\ \E i \in Idx(t1) : Is(t1, i, "make_id_failed")
        /\ \E i \in Idx(t2) : Is(t2, i, "make_data_failed")

\* C5: a failure of generate_id, of the presence check or of the insert is
\* followed by the error conversor on that error, and generate returns
\* what the conversor made of it; the conversor is called nowhere else, and
\* at most once in a call.
InternalOps == {"generate_id", "contains_key", "insert"}

C5_InternalErrorConverted ==
    \A t \in Tasks : Generating(t) =>
        /\ \A i \in Idx(t) :
             FailedAt(t, i) /\ At(t, i).op \in InternalOps =>
                 /\ Is(t, i + 1, "make_error")
                 /\ At(t, i + 1).e = At(t, i).e
                 /\ pc[t] = "done"
                 /\ output[t] = OutErr(make_error(At(t, i).e))
        /\ \A i \in Idx(t) :
             Is(t, i, "make_error") =>
                 FailedAt(t, i - 1) /\ At(t, i - 1).op \in InternalOps
        /\ Cardinality({i \in Idx(t) : Is(t, i, "make_error")}) <= 1

\* One generate ended on a failed insert, the other on a failed presence
\* check.
C5_Witness ==
    \E t1, t2 \in Tasks :
        /\ \E i \in Idx(t1) : FailedAt(t1, i) /\ Is(t1, i, "insert")
        /\ \E i \in Idx(t2) : FailedAt(t2, i) /\ Is(t2, i, "contains_key")

\* C6: a generate calls the data-maker at most once, on the attempt that
\* found the key absent and on no other.
C6_DataMakerOnce ==
    \A t \in Tasks : Generating(t) =>
        /\ Cardinality({i \in Idx(t) : Is(t, i, "make_data")}) <= 1
        /\ \A i \in Idx(t) :
             /\ Is(t, i, "make_data") =>
                  FoundAbsent(t, i - 1) /\ At(t, i - 1).x = At(t, i).x
             /\ FoundAbsent(t, i) => Is(t, i + 1, "make_data")
             /\ FoundPresent(t, i) => ~Is(t, i + 1, "make_data")

\* A generate called the data-maker on its second attempt, the first
\* having found its key present.
C6_Witness ==
    \E t \in Tasks :
        \E i, k \in Idx(t) :
            i < k /\ FoundPresent(t, i) /\ Is(t, k, "make_data")

\* C7: a generate that returned made two buffers first and saved both,
\* key_buf then val_buf, last.
C7_GenerateSavesBoth ==
    \A t \in Tasks : Generating(t) /\ pc[t] = "done" =>
        LET n == Len(trace[t])
        IN  /\ Is(t, 1, "make") /\ Is(t, 2, "make")
            /\ At(t, 1).x # At(t, 2).x
            /\ Cardinality({i \in Idx(t) : Is(t, i, "make")}) = 2
            /\ Cardinality({i \in Idx(t) : Is(t, i, "save")}) = 2
            /\ n >= 4
            /\ Is(t, n - 1, "save") /\ At(t, n - 1).x = At(t, 1).x
            /\ Is(t, n, "save") /\ At(t, n).x = At(t, 2).x
            /\ key_buf[t] = NoBuf /\ val_buf[t] = NoBuf

\* One generate returned Ok and the other an error, both through a pool.
C7_Witness ==
    \E t1, t2 \in Tasks :
        /\ Returned(t1) /\ cfg[t1].strat = "DefaultPool"
        /\ Generating(t2) /\ pc[t2] = "done" /\ output[t2].tag = "Err"
        /\ cfg[t2].strat = "Pool" /\ Len(ownPool[t2]) = 2

\* C8: an operation of Tree that returned made one buffer (insert: two) and
\* saved every buffer it made, whatever it returns.
TreeOps == {"get", "insert", "contains_key", "remove"}

C8_TreeOpSavesAll ==
    \A t \in Tasks : cfg[t].op \in TreeOps /\ pc[t] = "done" =>
        LET makes == {i \in Idx(t) : Is(t, i, "make")}
            saves == {i \in Idx(t) : Is(t, i, "save")}
        IN  /\ Cardinality(makes) = IF cfg[t].op = "insert" THEN 2 ELSE 1
            /\ Cardinality(saves) = Cardinality(makes)
            /\ \A i \in makes :
                 \E j \in saves : i < j /\ At(t, j).x = At(t, i).x
            /\ Is(t, Len(trace[t]), "save")
            /\ key_buf[t] = NoBuf /\ val_buf[t] = NoBuf

\* A get returned the decode error of an entry it could not decode: its
\* buffer, back in the Pool, holds the encoded key.
C8_Witness ==
    \E t \in Tasks :
        /\ cfg[t].op = "get" /\ pc[t] = "done"
        /\ output[t] = OutErr("Serde")
        /\ cfg[t].strat = "Pool" /\ Len(ownPool[t]) = 1
        /\ heap[ownPool[t][1]] = encode(0)

\* C9: generate ends only on success or on a failed step: a call that
\* returned without a failed step returned Ok, with the key of its first
\* absent check, every check before it having found its key present; so a
\* call none of whose steps failed and all of whose checks found the key
\* present has not returned, however many attempts it made.
NoFailure(t) == \A i \in Idx(t) : ~FailedAt(t, i)

C9_EndsOnSuccessOrError ==
    \A t \in Tasks : Generating(t) =>
        /\ pc[t] = "done" =>
             /\ output[t].tag \in {"Ok", "Err"}
             /\ (output[t].tag = "Err") <=> ~NoFailure(t)
        /\ pc[t] = "done" /\ NoFailure(t) =>
             \E i \in Idx(t) :
                 /\ FoundAbsent(t, i) /\ At(t, i).x = output[t].key
                 /\ \A j \in Idx(t) :
                      Is(t, j, "contains_key") /\ j # i =>
                          j < i /\ FoundPresent(t, j)
        /\ Is(t, Len(trace[t]), "yield_now") => pc[t] = "yield_now"

\* A generate has collided on every raw id but the first and still waits
\* to try again.
C9_Witness ==
    \E t \in Tasks :
        /\ pc[t] = "yield_now" /\ NoFailure(t)
        /\ Cardinality({i \in Idx(t) : FoundPresent(t, i)}) = MaxId - 1

\* C10: a generate that inserts a key another call inserted after the
\* presence check overwrites that entry (last write wins), leaves the
\* other entries and the other call's output alone, and returns Ok with
\* the key.
C10_LastWriteWins ==
    [][\A t \in Tasks :
         /\ pc[t] = "await_data" /\ pc'[t] = "done"
         /\ sled_contains_key(storage, encode(id[t]))
         /\ (output'[t].tag = "Ok" \/ NoFailure(t)')
         => /\ output'[t].tag = "Ok" /\ output'[t].key = id[t]
            /\ DOMAIN storage' = DOMAIN storage
            /\ \A k \in DOMAIN storage :
                 storage'[k] = IF k = encode(id[t])
                               THEN encode(output'[t].val) ELSE storage[k]
            /\ \A u \in Tasks \ {t} : output'[u] = output[u]
      ]_vars

\* Both calls returned Ok with the same key and different values; the tree
\* holds the one inserted last.
C10_Witness ==
    \E t1, t2 \in Tasks :
        /\ t1 # t2 /\ Returned(t1) /\ Returned(t2)
        /\ output[t1].key = output[t2].key
        /\ output[t1].val # output[t2].val
        /\ storage[encode(output[t1].key)] = encode(output[t2].val)

\* C11: a generate cancelled at an await never saves the buffers it has on
\* loan, and the cancellation leaves every pool as it was: after it, the
\* call's trace holds no save and neither of its buffers is in a pool.
Made(t) == {At(t, i).x : i \in {j \in Idx(t) : Is(t, j, "make")}}

C11_CancelLeaksOnly ==
    [][\A t \in Tasks :
         pc'[t] = "cancelled" =>
             /\ \A i \in Idx(t)' : ~Is(t, i, "save")'
             /\ Made(t)' \cap Pooled' = {}
             /\ key_buf'[t] = NoBuf /\ val_buf'[t] = NoBuf
             /\ pc[t] # "cancelled" =>
                  /\ DEFAULT_POOL' = DEFAULT_POOL
                  /\ ownPool' = ownPool
                  /\ storage' = storage
      ]_vars

\* A generate was cancelled with two buffers on loan while a thread's
\* default pool held the two buffers another call made after it and saved.
C11_Witness ==
    \E t1, t2 \in Tasks, th \in Threads :
        /\ pc[t1] = "cancelled" /\ pc[t2] = "done"
        /\ cfg[t1].strat = "DefaultPool" /\ cfg[t2].strat = "DefaultPool"
        /\ Len(DEFAULT_POOL[th]) = 2
        /\ \E b \in Made(t1) : b < DEFAULT_POOL[th][1]

\* C12: absent free and cancellation, the buffers ever allocated through
\* one pool are as many as were at most on loan at once, two for calls
\* executed one after the other, and no call after the first allocates.
\* Every make of SpecSeq is a make of thread w1's default pool, so the
\* buffers allocated through that pool are nextBuf.
C12_AllocatedIsPeak ==
    /\ nextBuf <= 2
    /\ \A t \in Tasks :
         (\E u \in Tasks \ {t} : pc[u] = "done") /\ Is(t, 1, "make") =>
             Made(t) \subseteq 1 .. 2

\* C13: make on a non-empty Pool or default pool returns the buffer saved
\* last to that pool, bytes and all, removes it from the pool and
\* allocates nothing; so a make right after save(b) on the same pool
\* returns b.
PoolOf(call, own, tls) ==
    IF call.strat = "Pool" THEN own[call.t] ELSE tls[call.th]

Pooling(call) == call.strat \in {"Pool", "DefaultPool"}

SamePool(c1, c2) ==
    /\ Pooling(c1) /\ c1.strat = c2.strat
    /\ IF c1.strat = "Pool" THEN c1.t = c2.t ELSE c1.th = c2.th

C13_MakeReusesLastSaved ==
    [][called'.op = "make" /\ Pooling(called') =>
         LET pool == PoolOf(called', ownPool, DEFAULT_POOL)
             after == PoolOf(called', ownPool', DEFAULT_POOL')
         IN  /\ pool # <<>> =>
                  /\ called'.buffer = pool[Len(pool)]
                  /\ after = SubSeq(pool, 1, Len(pool) - 1)
                  /\ nextBuf' = nextBuf
                  /\ heap' = heap
             /\ called.op = "save" /\ SamePool(called, called') =>
                  called'.buffer = called.buffer
      ]_vars

\* A make on a default pool of two buffers returned the one saved last, not
\* the one saved first.
C13_Witness ==
    /\ called.op = "make" /\ called.strat = "DefaultPool"
    /\ Len(DEFAULT_POOL[called.th]) = 1
    /\ called.buffer \in held[called.t]
    /\ called.buffer <= nextBuf - 2
    /\ DEFAULT_POOL[called.th][1] > called.buffer

\* C14: a make through OneTime returns a buffer just allocated, empty, that
\* no make returned before, whatever was saved earlier; make, save and
\* free through OneTime leave every pool as it was, and save and free
\* allocate nothing and leave the other buffers alone.
C14_OneTimeNeverReuses ==
    [][called'.strat = "OneTime" =>
         /\ DEFAULT_POOL' = DEFAULT_POOL /\ ownPool' = ownPool
         /\ called'.op = "make" =>
              /\ called'.buffer = nextBuf + 1 /\ nextBuf' = nextBuf + 1
              /\ heap'[called'.buffer] = <<>>
              /\ called'.buffer \notin UNION {held[t] : t \in Tasks}
              /\ called'.buffer \notin Pooled
              /\ \A b \in 1 .. nextBuf : heap'[b] = heap[b]
         /\ called'.op \in {"save", "free"} =>
              /\ nextBuf' = nextBuf
              /\ \A b \in (1 .. nextBuf) \ {called'.buffer} :
                   heap'[b] = heap[b]
         /\ called'.op = "free" => held' = held
      ]_vars

\* A make through OneTime after the client gave up the buffers it had made
\* before: it holds the new buffer only, and no pool holds any.
C14_Witness ==
    /\ called.op = "make" /\ called.strat = "OneTime"
    /\ nextBuf >= 2 /\ held[called.t] = {nextBuf} /\ Pooled = {}

\* C15: free on a Pool or the default pool leaves the pool empty and every
\* buffer on loan with its holder and its bytes, and allocates nothing; a
\* buffer saved afterwards is then in the pool, with its bytes: the only
\* one there when the save follows the free.
C15_FreeSparesLoans ==
    [][LET pool == PoolOf(called', ownPool, DEFAULT_POOL)
           after == PoolOf(called', ownPool', DEFAULT_POOL')
       IN  /\ called'.op = "free" =>
                /\ after = <<>>
                /\ held' = held
                /\ \A b \in held[called'.t] : heap'[b] = heap[b]
                /\ nextBuf' = nextBuf
           /\ called'.op = "save" =>
                /\ after = Append(pool, called'.buffer)
                /\ heap'[called'.buffer] = heap[called'.buffer]
                /\ called'.buffer \notin held'[called'.t]
                /\ called.op = "free" => after = <<called'.buffer>>
      ]_vars

\* A buffer that was on loan when the pool was freed of a buffer made
\* after it has been saved since, with bytes in it, and is alone in the
\* pool.
C15_Witness ==
    /\ called.op = "save"
    /\ PoolOf(called, ownPool, DEFAULT_POOL) = <<called.buffer>>
    /\ heap[called.buffer] # <<>>
    /\ called.buffer < nextBuf
    /\ held[called.t] = {}

\* C16: a call through DefaultPool on one thread leaves the pool of every
\* other thread, and every Pool, as it was; a make that returns a buffer
\* which was in a thread's default pool is a DefaultPool make on that
\* thread, and a DefaultPool make that returns a buffer made before took
\* it from the pool of its own thread, where a save had put it.
C16_OnePoolPerThread ==
    [][/\ called'.strat = "DefaultPool" =>
            /\ \A th \in Threads \ {called'.th} :
                 DEFAULT_POOL'[th] = DEFAULT_POOL[th]
            /\ ownPool' = ownPool
       /\ called'.op = "make" =>
            /\ \A th \in Threads :
                 called'.buffer \in Range(DEFAULT_POOL[th]) =>
                     called'.strat = "DefaultPool" /\ called'.th = th
            /\ called'.strat = "DefaultPool" /\ called'.buffer <= nextBuf =>
                 called'.buffer \in Range(DEFAULT_POOL[called'.th])
       /\ called'.op = "save" /\ called'.strat = "DefaultPool" =>
            called'.buffer \in Range(DEFAULT_POOL'[called'.th])
      ]_vars

\* A DefaultPool make on one thread returned a buffer saved on that thread
\* while the other thread's pool held a buffer made earlier.
C16_Witness ==
    \E th \in Threads \ {called.th} :
        /\ called.op = "make" /\ called.strat = "DefaultPool"
        /\ called.buffer < nextBuf
        /\ DEFAULT_POOL[th] # <<>>
        /\ DEFAULT_POOL[th][1] < called.buffer

\* C17 as claimed: the bytes of a buffer are those of its most recent
\* successful encode, or none before any encode and after a free; so an
\* encode sets them to the encoding when it succeeds and leaves them as
\* they were when it fails, a free empties them, a buffer just allocated
\* has none, and no other call changes them.
Live == Pooled \cup UNION {held[t] : t \in Tasks}

BytesKept(bufs) == \A b \in bufs : heap'[b] = heap[b]

C17_BytesAreLastSuccess ==
    [][LET b == called'.buffer
           out == output'[called'.t]
       IN  CASE called'.op = "encode" ->
                  /\ out.tag = "Ok" => heap'[b] = encode(out.val)
                  /\ out.tag = "Err" => heap'[b] = heap[b]
                  /\ BytesKept(Live \ {b})
             [] called'.op = "buffer_free" ->
                  heap'[b] = <<>> /\ BytesKept(Live \ {b})
             [] called'.op = "make" ->
                  /\ b > nextBuf => heap'[b] = <<>>
                  /\ BytesKept(Live)
             [] called'.op = "save" -> BytesKept(Live)
             [] OTHER -> BytesKept(UNION {held[t] : t \in Tasks})
      ]_vars

\* C17 as amended: the same, but a failed encode leaves in the buffer only
\* what the failed serialization wrote, a proper prefix of the encoding:
\* the bytes the buffer held before are gone.
ProperPrefix(bytes, of) ==
    Len(bytes) < Len(of) /\ bytes = SubSeq(of, 1, Len(bytes))

C17_BytesAreLastEncode ==
    [][LET b == called'.buffer
           out == output'[called'.t]
       IN  CASE called'.op = "encode" ->
                  /\ out.tag = "Ok" => heap'[b] = encode(out.val)
                  /\ out.tag = "Err" =>
                       ProperPrefix(heap'[b], encode(out.val))
                  /\ BytesKept(Live \ {b})
             [] called'.op = "buffer_free" ->
                  heap'[b] = <<>> /\ BytesKept(Live \ {b})
             [] called'.op = "make" ->
                  /\ b > nextBuf => heap'[b] = <<>>
                  /\ BytesKept(Live)
             [] called'.op = "save" -> BytesKept(Live)
             [] OTHER -> BytesKept(UNION {held[t] : t \in Tasks})
      ]_vars

\* An encode failed on a buffer the client had taken from the pool, while
\* the pool held another buffer with the bytes of an earlier encode.
C17_Witness ==
    /\ called.op = "encode" /\ output[called.t].tag = "Err"
    /\ called.buffer \in held[called.t]
    /\ called.buffer < nextBuf
    /\ \E b \in Pooled : heap[b] # <<>>

\* C18: an insert(k, v) that succeeds leaves k mapped to the encoding of v
\* and every other entry as it was, and returns None when k was absent
\* and Some(the value k had) when it was present; a get(k) that succeeds
\* changes nothing and returns Some(v) when k is mapped to the encoding
\* of v, None when k is absent; so a get(k) after a successful
\* insert(k, v), with no write of k in between, returns Some(v).
OpEv(t) == CHOOSE e \in Range(trace[t]) : e.op \in TreeOps

OutSome(v) == [tag |-> "Some", key |-> 0, val |-> v, err |-> ""]

Succeeds(t) ==
    pc[t] = "idle" /\ pc'[t] = "done" /\ output'[t].tag # "Err"

C18_InsertThenGet ==
    [][\A t \in Tasks : Succeeds(t) =>
         LET k == encode(OpEv(t)'.x)
             v == OpEv(t)'.y
         IN  /\ cfg'[t].op = "insert" =>
                  /\ DOMAIN storage' = DOMAIN storage \cup {k}
                  /\ storage'[k] = encode(v)
                  /\ \A x \in DOMAIN storage \ {k} : storage'[x] = storage[x]
                  /\ k \notin DOMAIN storage => output'[t] = OutNone
                  /\ \A w \in Vals :
                       k \in DOMAIN storage /\ storage[k] = encode(w) =>
                           output'[t] = OutSome(w)
             /\ cfg'[t].op = "get" =>
                  /\ storage' = storage
                  /\ k \notin DOMAIN storage => output'[t] = OutNone
                  /\ \A w \in Vals :
                       k \in DOMAIN storage /\ storage[k] = encode(w) =>
                           output'[t] = OutSome(w)
                  /\ \A u \in Tasks \ {t} :
                       /\ cfg[u].op = "insert" /\ pc[u] = "done"
                       /\ output[u].tag # "Err" /\ OpEv(u).x = OpEv(t)'.x
                       => output'[t] = OutSome(OpEv(u).y)
      ]_vars

\* An insert of a key with a value other than the key returned None, and
\* the get of the key that followed returned Some(the value).
C18_Witness ==
    /\ cfg["t1"].op = "insert" /\ output["t1"] = OutNone
    /\ cfg["t2"].op = "get" /\ pc["t2"] = "done"
    /\ OpEv("t1").x = OpEv("t2").x
    /\ OpEv("t1").y # OpEv("t1").x
    /\ output["t2"] = OutSome(OpEv("t1").y)

Count(t, op) == Cardinality({i \in Idx(t) : Is(t, i, op)})

C20_AttemptShape ==
    \A t \in Tasks : Generating(t) =>
        /\ \A i \in Idx(t) :
             /\ Is(t, i, "generate_id") =>
                  /\ i = 3 \/ Is(t, i - 1, "yield_now")
                  /\ At(t, i).e = "" =>
                       Is(t, i + 1, "make_id") /\ At(t, i + 1).x = At(t, i).x
             /\ Is(t, i, "make_id") => Is(t, i - 1, "generate_id")
             /\ Is(t, i, "contains_key") =>
                  /\ Is(t, i - 1, "make_id")
                  /\ At(t, i).x \in make_id(cfg[t].maker, At(t, i - 1).x)
             /\ Is(t, i, "yield_now") =>
                  /\ FoundPresent(t, i - 1)
                  /\ i + 1 \in Idx(t) => Is(t, i + 1, "generate_id")
             /\ FoundPresent(t, i) => Is(t, i + 1, "yield_now")
             /\ FoundAbsent(t, i) => Is(t, i + 1, "make_data")
             /\ Is(t, i, "insert") => Is(t, i - 1, "make_data")
        /\ Returned(t) =>
             LET c == Count(t, "yield_now")
             IN  /\ Count(t, "generate_id") = c + 1
                 /\ Count(t, "make_id") = c + 1
                 /\ Count(t, "contains_key") = c + 1
                 /\ Count(t, "make_data") = 1
                 /\ Count(t, "insert") = 1
                 /\ Len(trace[t]) = 2 + 4 * c + 5 + 2
                 /\ Is(t, Len(trace[t]) - 2, "insert")

\* A generate returned Ok after one collision.
C20_Witness ==
    \E t \in Tasks :
        /\ Returned(t) /\ Count(t, "yield_now") = 1
        /\ Count(t, "generate_id") = 2

\* C21: a generate calls insert at most once, and no store operation of
\* the call (raw id, presence check, insert) follows it; a generate that
\* returned the error of the raw-id generation, of the id-maker, of the
\* presence check or of the data-maker has called no insert; and a step
\* of a generate in which no insert succeeds leaves the tree as it was.
StoreOps == {"generate_id", "contains_key", "insert"}

EarlyFailures ==
    {"generate_id", "make_id_failed", "contains_key", "make_data_failed"}

FailedEarly(t) ==
    /\ pc[t] = "done" /\ output[t].tag = "Err"
    /\ \E i \in Idx(t) : FailedAt(t, i) /\ At(t, i).op \in EarlyFailures

Inserted(t) ==
    \E i \in Idx(t)' :
        /\ i > Len(trace[t]) /\ Is(t, i, "insert")' /\ At(t, i)'.e = ""

C21_InsertOnceAndLast ==
    [][\A t \in Tasks : Generating(t)' =>
         /\ Count(t, "insert")' <= 1
         /\ \A i, j \in Idx(t)' :
              Is(t, i, "insert")' /\ i < j => At(t, j)'.op \notin StoreOps
         /\ FailedEarly(t)' => Count(t, "insert")' = 0
         /\ trace'[t] # trace[t] /\ ~Inserted(t) => storage' = storage
      ]_vars

\* A generate returned the data-maker's error, having called no insert,
\* while the tree holds the entry another generate inserted.
C21_Witness ==
    \E t, u \in Tasks :
        /\ FailedEarly(t) /\ Count(t, "insert") = 0
        /\ \E i \in Idx(t) : Is(t, i, "make_data_failed")
        /\ Returned(u) /\ encode(output[u].key) \in DOMAIN storage

\* C22: an insert or a remove that returns a store error leaves the
\* partition as it was; one that returns a serialization error changed the
\* partition only if the key had a value that does not decode, and then
\* the write or the removal is applied in full; where the buffers of the
\* call can still be read (a Pool or the default pool), the error of an
\* incomplete encoding leaves the partition as it was, and the error that
\* follows two complete encodings is the decode error of the previous
\* value, returned with the write or the removal applied.
Fails(t) ==
    pc[t] = "idle" /\ pc'[t] = "done" /\ output'[t].tag = "Err"

Undecodable(k) == k \in DOMAIN storage /\ ~decode(storage[k]).ok

MutationApplied(op, k, v) ==
    /\ op = "insert" =>
         /\ DOMAIN storage' = DOMAIN storage \cup {k}
         /\ storage'[k] = v
    /\ op = "remove" => DOMAIN storage' = DOMAIN storage \ {k}
    /\ \A x \in DOMAIN storage' \ {k} : storage'[x] = storage[x]

C22_MutationBeforeDecode ==
    [][\A t \in Tasks : Fails(t) /\ cfg'[t].op \in {"insert", "remove"} =>
         LET op == cfg'[t].op
             k == encode(OpEv(t)'.x)
             v == encode(OpEv(t)'.y)
             whole == IF op = "insert" THEN {k, v} ELSE {k}
             encoded == \A b \in Made(t)' : heap'[b] \in whole
         IN  /\ output'[t].err = "Sled" => storage' = storage
             /\ output'[t].err = "Serde" =>
                  /\ storage' = storage \/ MutationApplied(op, k, v)
                  /\ storage' # storage => Undecodable(k)
                  /\ ~Undecodable(k) => storage' = storage
                  /\ Pooling(cfg'[t]) =>
                       /\ ~encoded => storage' = storage
                       /\ encoded /\ Undecodable(k) =>
                            /\ storage' # storage
                            /\ MutationApplied(op, k, v)
      ]_vars

\* An insert on a key whose value does not decode returned the
\* serialization error, and the key now has the value of the insert.
C22_Witness ==
    /\ cfg["t1"].op = "insert" /\ pc["t1"] = "done" /\ pc["t2"] = "idle"
    /\ output["t1"] = OutErr("Serde")
    /\ encode(OpEv("t1").x) \in DOMAIN storage
    /\ storage[encode(OpEv("t1").x)] = encode(OpEv("t1").y)

\* C23: save on a Pool or the default pool puts the buffer in the pool
\* with the bytes it holds, and make on a non-empty pool returns the
\* buffer on top with the bytes it holds, allocating nothing; a buffer in
\* a pool keeps its bytes; the bytes of a buffer a client holds change
\* only when the client calls encode or free on it; and make on an empty
\* pool or through OneTime, and the clone of a buffer, return a buffer
\* just allocated and empty, while the clone of a Pool is an empty pool.
C23_PoolKeepsBytes ==
    [][LET b == called'.buffer
           t == called'.t
           pool == PoolOf(called', ownPool, DEFAULT_POOL)
           after == PoolOf(called', ownPool', DEFAULT_POOL')
           reuses == Pooling(called') /\ pool # <<>>
       IN  /\ called'.op = "save" /\ Pooling(called') =>
                /\ b \in Range(after) /\ heap'[b] = heap[b]
                /\ BytesKept(Live)
           /\ called'.op = "make" =>
                /\ BytesKept(Live)
                /\ reuses =>
                     /\ b = pool[Len(pool)] /\ heap'[b] = heap[b]
                     /\ nextBuf' = nextBuf
                /\ ~reuses =>
                     /\ b = nextBuf + 1 /\ nextBuf' = nextBuf + 1
                     /\ heap'[b] = <<>>
           /\ called'.op = "buffer_clone" =>
                /\ b = nextBuf + 1 /\ heap'[b] = <<>>
                /\ BytesKept(Live)
           /\ called'.op = "pool_clone" =>
                /\ after = <<>> /\ held' = held /\ nextBuf' = nextBuf
                /\ BytesKept(held[t])
           /\ BytesKept(Pooled \cap Pooled')
           /\ \A x \in held[t] \cap held'[t] :
                heap'[x] # heap[x] =>
                    called'.op \in {"encode", "buffer_free"} /\ b = x
      ]_vars

\* A make returned a buffer made earlier, and the buffer holds the bytes
\* of the encode that succeeded before the buffer was saved.
C23_Witness ==
    /\ called.op = "make" /\ Pooling(called)
    /\ called.buffer \in held[called.t]
    /\ called.buffer <= nextBuf
    /\ output[called.t].tag = "Ok"
    /\ heap[called.buffer] = encode(output[called.t].val)
    /\ output[called.t].val = MaxVal

====
